---------------------------- MODULE Spec2Model ----------------------------
(***************************************************************************)
(* A model of bazaar-tracker (src/main.py): the placement classifier, the  *)
(* percentage and per-hero aggregators, and the dashboard's stats_tables,  *)
(* load_page, create and delete_game coroutines running against a shared   *)
(* run store.                                                              *)
(*                                                                         *)
(* Conventions                                                             *)
(*  - A Python str is a sequence of one-character strings, so that         *)
(*    str.lower, str.capitalize and the code-point order used by sorted()  *)
(*    are computed and not assumed.                                        *)
(*  - A percentage is kept in hundredths of a percent: 10.71 is 1071.      *)
(*    round(x, 2) is modelled on the exact quotient; Python rounds the     *)
(*    float, which gives the same result for every count <= total < 160   *)
(*    (a tie needs a total that is a multiple of 32 and goes to the even   *)
(*    digit in both).                                                      *)
(*  - Each await of a coroutine is one step: the query runs and the        *)
(*    coroutine resumes, up to its next await, without interruption.       *)
(***************************************************************************)
EXTENDS Integers, Sequences, FiniteSets, Bags, TLC

VARIABLES
    store,              \* the rows of models.Game (the run store)
    game_data_version,  \* main.py:40, user id -> version counter
    next_id,            \* the id the store gives to the next created row
    tasks,              \* the coroutines waiting at an await: a bag of records
    ui,                 \* per dashboard session: the nonlocals of index()
    arg,                \* argument of the aggregator call under test
    ret,                \* what the last aggregator or delete_game_by_id call
                        \* returned, once it has returned
    context             \* nicegui's context object (main.py:16), one per process

vars == <<store, game_data_version, next_id, tasks, ui, arg, ret, context>>

-----------------------------------------------------------------------------
(* Bounds of the model *)

\* integers tried as wins / finished lie in -IntBound .. IntBound
IntBound == 12
\* largest number of copies of the second run shape in a percentage input
MaxRepB == 25
\* longest list of hero names given to compute_runs_per_hero
MaxHeroRuns == 3

-----------------------------------------------------------------------------
(* Python strings *)

UpperLetters ==
    << "A", "B", "C", "D", "E", "F", "G", "H", "I", "J", "K", "L", "M",
       "N", "O", "P", "Q", "R", "S", "T", "U", "V", "W", "X", "Y", "Z" >>

LowerLetters ==
    << "a", "b", "c", "d", "e", "f", "g", "h", "i", "j", "k", "l", "m",
       "n", "o", "p", "q", "r", "s", "t", "u", "v", "w", "x", "y", "z" >>

IndexOf(c, letters) == CHOOSE i \in 1..Len(letters) : letters[i] = c

IsUpper(c) == \E i \in 1..Len(UpperLetters) : UpperLetters[i] = c

IsLower(c) == \E i \in 1..Len(LowerLetters) : LowerLetters[i] = c

\* ord(c): the code point; the characters used are letters, space and digit 1
Ord(c) ==
    IF IsUpper(c) THEN 64 + IndexOf(c, UpperLetters)
    ELSE IF IsLower(c) THEN 96 + IndexOf(c, LowerLetters)
    ELSE IF c = " " THEN 32
    ELSE 49

CharLower(c) == IF IsUpper(c) THEN LowerLetters[IndexOf(c, UpperLetters)] ELSE c

CharUpper(c) == IF IsLower(c) THEN UpperLetters[IndexOf(c, LowerLetters)] ELSE c

\* str.lower()
StrLower(s) == [i \in 1..Len(s) |-> CharLower(s[i])]

\* str.capitalize(): first character upper-cased, the rest lower-cased
StrCapitalize(s) ==
    [i \in 1..Len(s) |-> IF i = 1 THEN CharUpper(s[i]) ELSE CharLower(s[i])]

\* a mutant of Canon: no lower-casing before the grouping
CanonKeepCase(h) == h

\* g.hero.lower().capitalize()
Canon(h) == StrCapitalize(StrLower(h))

\* s < t for Python strings: code-point lexicographic order
StrLess(s, t) ==
    \E k \in 1..(Len(t)) :
        /\ \A j \in 1..(k - 1) : j <= Len(s) /\ s[j] = t[j]
        /\ \/ k = Len(s) + 1
           \/ k <= Len(s) /\ Ord(s[k]) < Ord(t[k])

StrMin(S) == CHOOSE s \in S : \A t \in S : t = s \/ StrLess(s, t)

StrMax(S) == CHOOSE s \in S : \A t \in S : t = s \/ StrLess(t, s)

RECURSIVE SortedDesc(_)
\* a mutant of Sorted: descending order
SortedDesc(S) ==
    IF S = {} THEN << >>
    ELSE LET m == StrMax(S) IN << m >> \o SortedDesc(S \ {m})

RECURSIVE Sorted(_)
\* sorted(S) for a set (or the keys of a dict) of strings
Sorted(S) ==
    IF S = {} THEN << >>
    ELSE LET m == StrMin(S) IN << m >> \o Sorted(S \ {m})

-----------------------------------------------------------------------------
(* categorize_game *)

categories == << "No Placement", "3rd", "2nd", "1st", "Perfect Game" >>

CategorySet == { categories[i] : i \in 1..Len(categories) }

\* a mutant of categorize_game: the thresholds are tested before wins == 10
categorize_game_thresholds_first(game) ==
    IF game.wins >= 7 THEN "2nd"
    ELSE IF game.wins = 10 /\ game.finished = 10 THEN "Perfect Game"
    ELSE IF game.wins = 10 THEN "1st"
    ELSE IF game.wins >= 4 THEN "3rd"
    ELSE "No Placement"

\* a mutant of categorize_game: the two middle tiers are swapped
categorize_game_swapped(game) ==
    IF game.wins = 10 /\ game.finished = 10 THEN "Perfect Game"
    ELSE IF game.wins = 10 THEN "1st"
    ELSE IF game.wins >= 7 THEN "3rd"
    ELSE IF game.wins >= 4 THEN "2nd"
    ELSE "No Placement"

categorize_game(game) ==
    IF game.wins = 10 /\ game.finished = 10 THEN "Perfect Game"
    ELSE IF game.wins = 10 THEN "1st"
    ELSE IF game.wins >= 7 THEN "2nd"
    ELSE IF game.wins >= 4 THEN "3rd"
    ELSE "No Placement"


-----------------------------------------------------------------------------
(* The run store: rows of models.Game.  A row is                           *)
(* [id, player_id, season, ranked, hero, wins, finished].                  *)

\* a mutant of FilterSeason: the runs of every user are read
FilterSeasonAnyUser(user_id, season) ==
    { g \in store : g.season = season }

\* models.Game.filter(player_id=user_id, season=season)
FilterSeason(user_id, season) ==
    { g \in store : g.player_id = user_id /\ g.season = season }

\* a mutant of FilterRanked: the query ignores the ranked flag
FilterRankedAnyMode(user_id, season, rank_value) ==
    { g \in store : g.player_id = user_id /\ g.season = season }

\* models.Game.filter(player_id=user.id, season=season.value, ranked=rank_value)
FilterRanked(user_id, season, rank_value) ==
    { g \in store : g.player_id = user_id /\ g.season = season
                    /\ g.ranked = rank_value }

-----------------------------------------------------------------------------
(* compute_placement_percentages *)

ZeroTotals == [c \in CategorySet |-> 0]

RECURSIVE CountTotals(_, _)
\* for g in games: totals[categorize_game(g)] += 1
CountTotals(games, totals) ==
    IF games = {} THEN totals
    ELSE LET g == CHOOSE x \in games : TRUE
             cat == categorize_game(g)
         IN  CountTotals(games \ {g}, [totals EXCEPT ![cat] = @ + 1])

RECURSIVE SumSeq(_)
SumSeq(s) == IF s = << >> THEN 0 ELSE Head(s) + SumSeq(Tail(s))

\* sum(totals.values())
SumValues(totals) == SumSeq([i \in 1..Len(categories) |-> totals[categories[i]]])

\* a mutant of PyRound2: truncation instead of rounding
PyTrunc2(count, total) == (count * 10000) \div total

\* round(count / total * 100, 2), in hundredths; ties go to the even digit
PyRound2(count, total) ==
    LET n == count * 10000
        q == n \div total
        r == n % total
    IN  IF 2 * r < total THEN q
        ELSE IF 2 * r > total THEN q + 1
        ELSE IF q % 2 = 0 THEN q ELSE q + 1

\* a mutant of compute_placement_percentages: no guard for an empty season,
\* so that the division raises instead of returning
compute_placement_percentages_unguarded(user_id, season) ==
    LET games == FilterSeason(user_id, season)
        totals == CountTotals(games, ZeroTotals)
        total_games == SumValues(totals)
    IN  IF total_games = 0
        THEN [raised |-> "ZeroDivisionError"]
        ELSE [categories |-> categories,
              percentages |-> [i \in 1..Len(categories) |->
                                  PyRound2(totals[categories[i]], total_games)]]

compute_placement_percentages(user_id, season) ==
    LET games == FilterSeason(user_id, season)
        totals == CountTotals(games, ZeroTotals)
        total_games == SumValues(totals)
    IN  [categories |-> categories,
         percentages |-> [i \in 1..Len(categories) |->
                             IF total_games # 0
                             THEN PyRound2(totals[categories[i]], total_games)
                             ELSE 0]]

-----------------------------------------------------------------------------
(* compute_runs_per_hero *)

RECURSIVE CountHeroes(_, _)
\* for g in games: hero = canon(g.hero); counts[hero] = counts.get(hero, 0) + 1
CountHeroes(games, counts) ==
    IF games = {} THEN counts
    ELSE LET g == CHOOSE x \in games : TRUE
             hero == Canon(g.hero)
         IN  CountHeroes(games \ {g},
                 IF hero \in DOMAIN counts
                 THEN [counts EXCEPT ![hero] = @ + 1]
                 ELSE counts @@ (hero :> 1))

\* the empty dict
EmptyDict == [k \in {} |-> 0]

compute_runs_per_hero(user_id, season) ==
    LET games == FilterSeason(user_id, season)
        counts == CountHeroes(games, EmptyDict)
        heroes == Sorted(DOMAIN counts)
    IN  [heroes |-> heroes,
         counts |-> [i \in 1..Len(heroes) |-> counts[heroes[i]]]]


-----------------------------------------------------------------------------
(* Inputs of the aggregator specifications *)

\* the (owner, season) pair the aggregators are called for
TheUser == [id |-> 1]

TheSeason == [value |-> 3]

\* another user and another season, whose runs must not be counted
OtherUser == [id |-> 2]

OtherSeason == [value |-> 2]

Row(id, player_id, season, ranked, hero, wins, finished) ==
    [id |-> id, player_id |-> player_id, season |-> season, ranked |-> ranked,
     hero |-> hero, wins |-> wins, finished |-> finished]

Dooley == << "D", "o", "o", "l", "e", "y" >>

Mak == << "M", "a", "k" >>

Pygmalien == << "P", "y", "g", "m", "a", "l", "i", "e", "n" >>

Vanessa == << "V", "a", "n", "e", "s", "s", "a" >>

Stelle == << "S", "t", "e", "l", "l", "e" >>

Jules == << "J", "u", "l", "e", "s" >>

\* HERO_OPTIONS, main.py:290
HERO_OPTIONS == << Dooley, Mak, Pygmalien, Vanessa, Stelle, Jules >>

RosterSet == { HERO_OPTIONS[i] : i \in 1..Len(HERO_OPTIONS) }

\* runs of another user and of another season
ForeignRows ==
    { Row(101, OtherUser.id, TheSeason.value, TRUE, Mak, 10, 10),
      Row(102, TheUser.id, OtherSeason.value, FALSE, << "z", "e", "d" >>, 8, 9) }

\* request.session, the cookie session of a browser: user_id is 0 when the
\* session has no 'user_id' (nobody is logged in)
RequestSession(user_id) == [user_id |-> user_id]

NoDashboard ==
    /\ game_data_version = [u \in {} |-> 0]
    /\ next_id = 0
    /\ tasks = EmptyBag
    /\ ui = [s \in {} |-> 0]
    /\ context = [session |-> RequestSession(0), season |-> 0]

Pending == [done |-> FALSE]

Returned(v) == [done |-> TRUE, value |-> v]

-----------------------------------------------------------------------------
(* SpecCat: categorize_game applied to every pair of small integers *)

IntInputs == (0 - IntBound)..IntBound

InitCat ==
    /\ arg \in [wins : IntInputs, finished : IntInputs]
    /\ ret = Pending
    /\ store = {}
    /\ NoDashboard

CallCategorize ==
    /\ ~ret.done
    /\ ret' = Returned(categorize_game(arg))
    /\ UNCHANGED <<store, game_data_version, next_id, tasks, ui, arg, context>>

NextCat == CallCategorize

SpecCat == InitCat /\ [][NextCat]_vars

\* rank in the order No Placement < 3rd < 2nd < 1st < Perfect Game
Rank(cat) == CHOOSE i \in 1..Len(categories) : categories[i] = cat

\* C1: for every integer pair categorize_game returns the first matching
\* category of: Perfect Game (wins = 10 and finished = 10), 1st (wins = 10),
\* 2nd (wins >= 7), 3rd (wins >= 4), No Placement; nothing else is returned.
C1_FirstMatch ==
    ret.done =>
        /\ ret.value \in {"No Placement", "3rd", "2nd", "1st", "Perfect Game"}
        /\ (arg.wins = 10 /\ arg.finished = 10) <=> (ret.value = "Perfect Game")
        /\ (arg.wins = 10 /\ arg.finished # 10) <=> (ret.value = "1st")
        /\ (arg.wins >= 7 /\ arg.wins # 10) <=> (ret.value = "2nd")
        /\ (arg.wins >= 4 /\ arg.wins < 7) <=> (ret.value = "3rd")
        /\ (arg.wins < 4) <=> (ret.value = "No Placement")

\* an out-of-range pair has been classified
C1_Witness ==
    /\ ret.done
    /\ arg.wins = 11
    /\ arg.finished < 0
    /\ ret.value = "2nd"

\* the pairs monotonicity is stated over
ValidPairs == { p \in [wins : IntInputs, finished : IntInputs] :
                  0 <= p.wins /\ p.wins <= p.finished }

\* C4 as stated: over all pairs with 0 <= wins <= finished, a pair with more
\* wins never has a lower category.
C4_MonotoneAllWins ==
    (ret.done /\ arg \in ValidPairs) =>
        \A p \in ValidPairs :
            arg.wins < p.wins => Rank(ret.value) <= Rank(categorize_game(p))

\* C4 amended: over the pairs with 0 <= wins <= finished and wins <= 10, a
\* pair with more wins never has a lower category.
C4_MonotoneUpTo10 ==
    (ret.done /\ arg \in ValidPairs) =>
        \A p \in ValidPairs :
            (arg.wins < p.wins /\ p.wins <= 10) =>
                Rank(ret.value) <= Rank(categorize_game(p))

\* a pair below the top tier has been classified, with pairs above it
C4_Witness ==
    /\ ret.done
    /\ arg.wins = 7
    /\ arg.finished = 9
    /\ ret.value = "2nd"


-----------------------------------------------------------------------------
(* SpecPct: compute_placement_percentages applied to stores made of up to  *)
(* three run shapes, with and without runs of other users and seasons      *)

\* copies of the first and of the third run shape
MaxRepA == 6

MaxRepC == 1

\* (wins, finished) of the runs tried: one per category, and a negative one
Shapes ==
    { [wins |-> 0, finished |-> 0], [wins |-> 5, finished |-> 8],
      [wins |-> 8, finished |-> 9], [wins |-> 10, finished |-> 12],
      [wins |-> 10, finished |-> 10], [wins |-> 0 - 1, finished |-> 3] }

\* n runs of one shape for TheUser in TheSeason, with ids from + 1 .. from + n
Copies(from, n, shape) ==
    { Row(from + k, TheUser.id, TheSeason.value, k % 2 = 0, Dooley,
          shape.wins, shape.finished) : k \in 1..n }

InitPct ==
    /\ \E A \in Shapes, B \in Shapes, C \in Shapes :
       \E a \in 0..MaxRepA, b \in 0..MaxRepB, c \in 0..MaxRepC :
       \E foreign \in SUBSET ForeignRows :
           store = Copies(0, a, A) \cup Copies(a, b, B) \cup Copies(a + b, c, C)
                   \cup foreign
    /\ arg = [user_id |-> TheUser.id, season |-> TheSeason.value]
    /\ ret = Pending
    /\ NoDashboard

CallPercentages ==
    /\ ~ret.done
    /\ ret' = Returned(compute_placement_percentages(arg.user_id, arg.season))
    /\ UNCHANGED <<store, game_data_version, next_id, tasks, ui, arg, context>>

NextPct == CallPercentages

SpecPct == InitPct /\ [][NextPct]_vars

\* the runs of the (owner, season) pair of the call
RunsOfCall == { g \in store : g.player_id = arg.user_id /\ g.season = arg.season }

\* the number of runs of the call with the given (wins, finished)
NumShaped(wins, finished) ==
    Cardinality({ g \in RunsOfCall : g.wins = wins /\ g.finished = finished })

Abs(x) == IF x < 0 THEN 0 - x ELSE x

\* C2: for a non-empty collection of runs each percentage is count / total * 100
\* rounded to two decimals (the nearest hundredth), count being the number of
\* runs categorize_game puts in the category and total the number of runs; the
\* order is [No Placement, 3rd, 2nd, 1st, Perfect Game]; 3 runs in 3rd and 25
\* in No Placement give 89.29, 10.71, 0, 0, 0.
C2_Percentages ==
    (ret.done /\ RunsOfCall # {}) =>
        LET total == Cardinality(RunsOfCall)
            count(c) == Cardinality({ g \in RunsOfCall : categorize_game(g) = c })
            order == << "No Placement", "3rd", "2nd", "1st", "Perfect Game" >>
        IN  /\ DOMAIN ret.value = {"categories", "percentages"}
            /\ ret.value.categories = order
            /\ Len(ret.value.percentages) = 5
            /\ \A i \in 1..5 :
                  2 * Abs(ret.value.percentages[i] * total - count(order[i]) * 10000)
                      < total
                  \/ /\ 2 * Abs(ret.value.percentages[i] * total
                                - count(order[i]) * 10000) = total
                     /\ ret.value.percentages[i] % 2 = 0
            /\ (total = 28 /\ NumShaped(5, 8) = 3 /\ NumShaped(0, 0) = 25) =>
                  ret.value.percentages = << 8929, 1071, 0, 0, 0 >>

\* the 28 runs of the test suite have been aggregated
C2_Witness ==
    /\ ret.done
    /\ Cardinality(RunsOfCall) = 28
    /\ NumShaped(5, 8) = 3
    /\ NumShaped(0, 0) = 25
    /\ ret.value.percentages[2] = 1071

\* C3: with zero runs for the (owner, season) pair the call returns the five
\* categories with 0.0 for each and does not fail with a division by zero.
C3_EmptySeason ==
    (ret.done /\ RunsOfCall = {}) =>
        /\ DOMAIN ret.value = {"categories", "percentages"}
        /\ ret.value.categories =
               << "No Placement", "3rd", "2nd", "1st", "Perfect Game" >>
        /\ ret.value.percentages = << 0, 0, 0, 0, 0 >>

\* the call has returned for a pair without runs while the store holds the
\* runs of another user and of another season
C3_Witness ==
    /\ ret.done
    /\ RunsOfCall = {}
    /\ store = ForeignRows
    /\ ret.value.percentages = << 0, 0, 0, 0, 0 >>


-----------------------------------------------------------------------------
(* SpecHero: compute_runs_per_hero applied to every short list of hero     *)
(* names, with and without runs of other users and seasons                 *)

\* hero names as stored: case variants, and names outside HERO_OPTIONS
HeroInputs ==
    { << "d", "o", "o", "l", "e", "y" >>,
      << "D", "O", "O", "L", "E", "Y" >>,
      Dooley,
      Mak,
      << "m", "A", "k" >>,
      << "M", "a" >>,
      << " ", "m", "a", "k" >> }

InitHero ==
    /\ \E n \in 0..MaxHeroRuns :
       \E hs \in [1..n -> HeroInputs] :
       \E foreign \in SUBSET ForeignRows :
           store = { Row(k, TheUser.id, TheSeason.value, k % 2 = 0, hs[k], 5, 8)
                       : k \in 1..n } \cup foreign
    /\ arg = [user_id |-> TheUser.id, season |-> TheSeason.value]
    /\ ret = Pending
    /\ NoDashboard

CallRunsPerHero ==
    /\ ~ret.done
    /\ ret' = Returned(compute_runs_per_hero(arg.user_id, arg.season))
    /\ UNCHANGED <<store, game_data_version, next_id, tasks, ui, arg, context>>

NextHero == CallRunsPerHero

SpecHero == InitHero /\ [][NextHero]_vars

\* the stored hero names of the runs of the call
HeroNamesOfCall == { g.hero : g \in RunsOfCall }

\* s and t differ at most in letter case
SameIgnoringCase(s, t) ==
    /\ Len(s) = Len(t)
    /\ \A i \in 1..Len(s) : CharLower(s[i]) = CharLower(t[i])

\* first letter upper case, the rest lower case
IsCanonical(s) ==
    \A i \in 1..Len(s) : IF i = 1 THEN ~IsLower(s[i]) ELSE ~IsUpper(s[i])

\* C5: runs are grouped by the canonicalized hero name (first letter upper
\* case, rest lower case), names that differ only in case share a bucket:
\* "dooley", "DOOLEY", "Mak" give ["Dooley", "Mak"] with [2, 1]; the counts
\* sum to the number of runs.
C5_GroupedByCanonicalName ==
    ret.done =>
        LET heroes == ret.value.heroes
            counts == ret.value.counts
        IN  /\ Len(counts) = Len(heroes)
            /\ SumSeq(counts) = Cardinality(RunsOfCall)
            /\ \A i \in 1..Len(heroes) :
                  /\ IsCanonical(heroes[i])
                  /\ counts[i] = Cardinality({ g \in RunsOfCall :
                                     SameIgnoringCase(g.hero, heroes[i]) })
            /\ \A g \in RunsOfCall :
                  \E i \in 1..Len(heroes) : SameIgnoringCase(g.hero, heroes[i])
            /\ HeroNamesOfCall = { << "d", "o", "o", "l", "e", "y" >>,
                                   << "D", "O", "O", "L", "E", "Y" >>,
                                   << "M", "a", "k" >> }
                  /\ Cardinality(RunsOfCall) = 3
               => /\ heroes = << << "D", "o", "o", "l", "e", "y" >>,
                                 << "M", "a", "k" >> >>
                  /\ counts = << 2, 1 >>

\* runs with the heroes "dooley", "DOOLEY" and "Mak" have been counted
C5_Witness ==
    /\ ret.done
    /\ Cardinality(RunsOfCall) = 3
    /\ HeroNamesOfCall = { << "d", "o", "o", "l", "e", "y" >>,
                           << "D", "O", "O", "L", "E", "Y" >>,
                           << "M", "a", "k" >> }
    /\ ret.value.counts = << 2, 1 >>

\* C6: the returned heroes are in strictly ascending lexicographic order (so
\* without duplicates), each is the canonicalized name of a hero of the given
\* runs with a count >= 1, and the counts are parallel to the heroes.
C6_SortedPresentHeroes ==
    ret.done =>
        LET heroes == ret.value.heroes
            counts == ret.value.counts
        IN  /\ Len(counts) = Len(heroes)
            /\ \A i \in 1..Len(heroes) :
                  /\ counts[i] >= 1
                  /\ \E g \in RunsOfCall : SameIgnoringCase(g.hero, heroes[i])
                  /\ i > 1 => StrLess(heroes[i - 1], heroes[i])

\* three different heroes have been returned, one starting with a space
C6_Witness ==
    /\ ret.done
    /\ Len(ret.value.heroes) = 3
    /\ ret.value.heroes[1] = << " ", "m", "a", "k" >>
    /\ ret.value.counts = << 1, 1, 1 >>


-----------------------------------------------------------------------------
(* stats_tables and collect_stats: the computations between the awaits *)

\* values_list("hero", flat=True) of the distinct() query of get_heroes
HeroValues(user_id, season) == { g.hero : g \in FilterSeason(user_id, season) }

\* a mutant of get_heroes_sorted: HERO_OPTIONS is not added
get_heroes_without_roster(hero_values) ==
    Sorted({ Canon(h) : h \in hero_values })

\* get_heroes, after its query: the sorted union with HERO_OPTIONS
get_heroes_sorted(hero_values) ==
    Sorted({ Canon(h) : h \in hero_values } \cup RosterSet)

SeqToSet(s) == { s[i] : i \in 1..Len(s) }

\* a mutant of InitStats: the counters of the first category start at one
InitStatsFromOne(heroes) ==
    [h \in SeqToSet(heroes) |-> [ZeroTotals EXCEPT !["No Placement"] = 1]]

\* stats = {h: {'No Placement': 0, ..., 'Perfect Game': 0} for h in heroes}
InitStats(heroes) == [h \in SeqToSet(heroes) |-> ZeroTotals]

RECURSIVE StatsLoopCountingOnce(_, _)
\* a mutant of StatsLoop: a counter is set to one instead of increased
StatsLoopCountingOnce(games, stats) ==
    IF games = {} THEN stats
    ELSE LET g == CHOOSE x \in games : TRUE
             hero == Canon(g.hero)
             category == categorize_game(g)
             known == IF hero \in DOMAIN stats THEN stats
                      ELSE stats @@ (hero :> ZeroTotals)
         IN  StatsLoopCountingOnce(games \ {g},
                                   [known EXCEPT ![hero][category] = 1])

RECURSIVE StatsLoop(_, _)
\* for g in games: ...; stats[hero][category] += 1   (main.py:558-563)
StatsLoop(games, stats) ==
    IF games = {} THEN stats
    ELSE LET g == CHOOSE x \in games : TRUE
             hero == Canon(g.hero)
             category == categorize_game(g)
             known == IF hero \in DOMAIN stats THEN stats
                      ELSE stats @@ (hero :> ZeroTotals)
         IN  StatsLoop(games \ {g},
                       [known EXCEPT ![hero][category] = @ + 1])

Total == << "T", "o", "t", "a", "l" >>

\* one row of ranked_rows / unranked_rows
HeroRow(h, stats) == ("hero" :> h) @@ stats[h]

\* a mutant of TotalsRow: the first hero row is left out of the sums
TotalsRowSkippingFirst(rows) ==
    ("hero" :> Total) @@
    [cat \in CategorySet |-> SumSeq([i \in 1..(Len(rows) - 1) |-> rows[i + 1][cat]])]

\* totals = {"hero": "Total"}; totals[cat] = sum(r[cat] for r in rows)
TotalsRow(rows) ==
    ("hero" :> Total) @@
    [cat \in CategorySet |-> SumSeq([i \in 1..Len(rows) |-> rows[i][cat]])]

\* ranked_rows / unranked_rows with the Total row appended (main.py:594-620)
BuildRows(heroes, stats) ==
    LET rows == [i \in 1..Len(heroes) |-> HeroRow(heroes[i], stats)]
    IN  IF rows # << >> THEN Append(rows, TotalsRow(rows)) ELSE rows

\* hero_data (main.py:675-678): the roster at zero, then the counted heroes
HeroData(hero_names, hero_counts) ==
    LET all_hero_names == Sorted({ Canon(HERO_OPTIONS[i]) : i \in 1..Len(HERO_OPTIONS) })
        counted == [i \in 1..Len(hero_names) |-> hero_names[i]]
    IN  [n \in SeqToSet(all_hero_names) \cup SeqToSet(counted) |->
            IF \E i \in 1..Len(hero_names) : hero_names[i] = n
            THEN hero_counts[CHOOSE i \in 1..Len(hero_names) : hero_names[i] = n]
            ELSE 0]

RECURSIVE SumDict(_)
\* sum(d.values())
SumDict(d) ==
    IF DOMAIN d = {} THEN 0
    ELSE LET k == CHOOSE x \in DOMAIN d : TRUE
         IN  d[k] + SumDict([x \in DOMAIN d \ {k} |-> d[x]])

\* the bars of the hero chart (main.py:725-731): one per roster hero
HeroChartData(hero_names, hero_counts) ==
    LET all_hero_names == Sorted({ Canon(HERO_OPTIONS[i]) : i \in 1..Len(HERO_OPTIONS) })
        hero_data == HeroData(hero_names, hero_counts)
        total == SumDict(hero_data)
    IN  [names |-> all_hero_names,
         values |-> [i \in 1..Len(all_hero_names) |->
                        IF total # 0 THEN PyRound2(hero_data[all_hero_names[i]], total)
                        ELSE 0]]

-----------------------------------------------------------------------------
(* Spec: dashboard sessions of one user on one store.  Each await of       *)
(* stats_tables, create and delete_game is a point where the handlers of   *)
(* the other sessions may run.  load_page, which only fills the list of    *)
(* games, is not part of this state.  A stats_tables coroutine is started  *)
(* when none is running: the coroutines of two refreshes do not overlap,   *)
(* the handlers that create and delete runs overlap with all of them.      *)

\* the version counter is capped: no run is created or deleted beyond it
MaxVersion == 2

\* two dashboard pages (browser tabs) of the same user and season
Sessions == { "s1", "s2" }

\* runs the user may have when the pages are opened: a case variant of a
\* roster hero, and a hero that is not in HERO_OPTIONS
LegacyRows ==
    { Row(1, TheUser.id, TheSeason.value, TRUE,
          << "D", "O", "O", "L", "E", "Y" >>, 5, 8),
      Row(2, TheUser.id, TheSeason.value, FALSE, << "z", "e", "d" >>, 10, 10) }

\* a run of another user, which the store holds throughout
OtherUsersRow == Row(3, OtherUser.id, TheSeason.value, TRUE, Mak, 8, 9)

\* what the Add Run form is submitted with: ranked, hero, wins, finished
FormInputs ==
    { [ranked |-> TRUE, hero |-> Mak, wins |-> 10, finished |-> 12] }

\* a widget that is None
NoWidget == [exists |-> FALSE, data |-> << >>]

\* ui.table(rows=...) / ui.echart(options=...), or its update
Widget(data) == [exists |-> TRUE, data |-> data]

\* what one collect_stats call has read and computed
EmptyPart == [hero_values |-> {}, heroes |-> << >>, games |-> {}, stats |-> EmptyDict]

\* a stats_tables coroutine at its first await
NewTask(s, initial) ==
    [session |-> s, initial |-> initial, pc |-> "has_data",
     ranked |-> EmptyPart, unranked |-> EmptyPart,
     ranked_rows |-> << >>, unranked_rows |-> << >>, percentages |-> << >>]

Running == BagToSet(tasks)

Spawn(bag, s, initial) == bag (+) SetToBag({ NewTask(s, initial) })

Without(bag, t) == bag (-) SetToBag({ t })

\* no stats_tables coroutine is running
Quiet == tasks = EmptyBag

\* a mutant of mark_games_changed: the counter of every user is increased
mark_games_changed_everyone(version, user_id) ==
    [u \in DOMAIN version |-> version[u] + 1]

\* mark_games_changed
mark_games_changed(version, user_id) ==
    [version EXCEPT ![user_id] = @ + 1]

\* a mutant of HasData: the query is not restricted to the user
HasDataAnyUser(user_id, season) ==
    \E g \in store : g.season = season

\* models.Game.filter(player_id=user.id, season=season.value).exists()
HasData(user_id, season) == FilterSeason(user_id, season) # {}

\* the nonlocals of index() when its page is being built; wins and finished
\* are the values of the two sliders of the Add Run form (lines 808, 812)
FreshPage ==
    [user |-> TheUser.id, season |-> TheSeason.value,
     ranked_table |-> NoWidget, unranked_table |-> NoWidget,
     placement_chart |-> NoWidget, hero_chart |-> NoWidget,
     session_version |-> 0, loaded |-> FALSE, handler |-> "idle",
     wins |-> 0, finished |-> 0]

\* the nonlocals of index() once its page has been built with no other
\* handler running: the widgets show the store as it is
BuiltPage ==
    LET user_id == TheUser.id
        season == TheSeason.value
        heroes == get_heroes_sorted(HeroValues(user_id, season))
        stats(rank_value) ==
            StatsLoop(FilterRanked(user_id, season, rank_value), InitStats(heroes))
        per_hero == compute_runs_per_hero(user_id, season)
    IN  IF HasData(user_id, season)
        THEN [FreshPage EXCEPT
                 !.loaded = TRUE,
                 !.ranked_table = Widget(BuildRows(heroes, stats(TRUE))),
                 !.unranked_table = Widget(BuildRows(heroes, stats(FALSE))),
                 !.placement_chart =
                     Widget(compute_placement_percentages(user_id, season).percentages),
                 !.hero_chart = Widget(HeroChartData(per_hero.heroes, per_hero.counts))]
        ELSE [FreshPage EXCEPT !.loaded = TRUE]

\* one page is open, a second one is being opened
Init ==
    /\ \E legacy \in SUBSET LegacyRows : store = legacy \cup { OtherUsersRow }
    /\ next_id = 4
    /\ game_data_version = [u \in { TheUser.id, OtherUser.id } |-> 0]
    /\ ui = [s \in Sessions |-> IF s = "s1" THEN FreshPage ELSE BuiltPage]
    /\ tasks = SetToBag({ NewTask("s1", TRUE) })
    /\ arg = << >>
    /\ ret = Pending
    /\ context = [session |-> RequestSession(TheUser.id), season |-> TheSeason.value]

\* the return of stats_tables; the page-load call is followed by
\* session_version = game_data_version.get(user.id, 0) and ui.timer (879-889)
AfterReturn(u, t) ==
    IF t.initial
    THEN [u EXCEPT ![t.session].loaded = TRUE,
                   ![t.session].session_version = game_data_version[u[t.session].user]]
    ELSE u

\* stats_tables, lines 571-578: the has_data query and the early return
StatsHasData(t) ==
    /\ t.pc = "has_data"
    /\ IF HasData(ui[t.session].user, ui[t.session].season)
       THEN /\ tasks' = Without(tasks, t) (+) SetToBag({ [t EXCEPT !.pc = "heroes_ranked"] })
            /\ ui' = ui
       ELSE /\ tasks' = Without(tasks, t)
            /\ ui' = AfterReturn([ui EXCEPT ![t.session].ranked_table = NoWidget,
                                            ![t.session].unranked_table = NoWidget,
                                            ![t.session].placement_chart = NoWidget,
                                            ![t.session].hero_chart = NoWidget], t)
    /\ UNCHANGED <<store, game_data_version, next_id, arg, ret, context>>

\* collect_stats, line 555: await get_heroes()
StatsGetHeroes(t) ==
    /\ t.pc \in { "heroes_ranked", "heroes_unranked" }
    /\ LET hero_values == HeroValues(ui[t.session].user, ui[t.session].season)
           part == [EmptyPart EXCEPT !.hero_values = hero_values,
                                     !.heroes = get_heroes_sorted(hero_values)]
       IN  tasks' = Without(tasks, t) (+) SetToBag({
                IF t.pc = "heroes_ranked"
                THEN [t EXCEPT !.pc = "games_ranked", !.ranked = part]
                ELSE [t EXCEPT !.pc = "games_unranked", !.unranked = part] })
    /\ UNCHANGED <<store, game_data_version, next_id, ui, arg, ret, context>>

\* collect_stats, lines 556-564: the query of the runs and the counting loop
CollectPart(part, games) ==
    [part EXCEPT !.games = games,
                 !.stats = StatsLoop(games, InitStats(part.heroes))]

\* collect_stats(True), from its second await to its return
StatsCollectRanked(t) ==
    /\ t.pc = "games_ranked"
    /\ LET games == FilterRanked(ui[t.session].user, ui[t.session].season, TRUE)
       IN  tasks' = Without(tasks, t) (+) SetToBag({
                [t EXCEPT !.pc = "heroes_unranked",
                          !.ranked = CollectPart(t.ranked, games)] })
    /\ UNCHANGED <<store, game_data_version, next_id, ui, arg, ret, context>>

\* collect_stats(False), from its second await to its return, and the rows
\* of both tables (lines 594-620)
StatsCollectUnranked(t) ==
    /\ t.pc = "games_unranked"
    /\ LET games == FilterRanked(ui[t.session].user, ui[t.session].season, FALSE)
           unranked == CollectPart(t.unranked, games)
       IN  tasks' = Without(tasks, t) (+) SetToBag({
                [t EXCEPT !.pc = "percentages",
                          !.unranked = unranked,
                          !.ranked_rows = BuildRows(t.ranked.heroes, t.ranked.stats),
                          !.unranked_rows = BuildRows(unranked.heroes, unranked.stats)] })
    /\ UNCHANGED <<store, game_data_version, next_id, ui, arg, ret, context>>

\* a mutant of StatsPercentages: the call marks the runs of the user as
\* changed
StatsPercentagesMarking(t) ==
    /\ t.pc = "percentages"
    /\ tasks' = Without(tasks, t) (+) SetToBag({
            [t EXCEPT !.pc = "runs_per_hero",
                      !.percentages =
                          compute_placement_percentages(ui[t.session].user,
                                                        ui[t.session].season).percentages] })
    /\ game_data_version' = mark_games_changed(game_data_version, ui[t.session].user)
    /\ UNCHANGED <<store, next_id, ui, arg, ret, context>>

\* stats_tables, line 622: await compute_placement_percentages(...)
StatsPercentages(t) ==
    /\ t.pc = "percentages"
    /\ tasks' = Without(tasks, t) (+) SetToBag({
            [t EXCEPT !.pc = "runs_per_hero",
                      !.percentages =
                          compute_placement_percentages(ui[t.session].user,
                                                        ui[t.session].season).percentages] })
    /\ UNCHANGED <<store, game_data_version, next_id, ui, arg, ret, context>>

\* stats_tables, lines 623-787: await compute_runs_per_hero(...), then the
\* tables and charts are created or updated, and the coroutine returns
StatsEmit(t) ==
    /\ t.pc = "runs_per_hero"
    /\ LET per_hero == compute_runs_per_hero(ui[t.session].user, ui[t.session].season)
       IN  ui' = AfterReturn(
                 [ui EXCEPT ![t.session].ranked_table = Widget(t.ranked_rows),
                            ![t.session].unranked_table = Widget(t.unranked_rows),
                            ![t.session].placement_chart = Widget(t.percentages),
                            ![t.session].hero_chart =
                                Widget(HeroChartData(per_hero.heroes, per_hero.counts))],
                 t)
    /\ tasks' = Without(tasks, t)
    /\ UNCHANGED <<store, game_data_version, next_id, arg, ret, context>>

\* create, lines 498-511: await models.Game.create(...)
CreateRun(s, form) ==
    /\ ui[s].loaded
    /\ ui[s].handler = "idle"
    /\ game_data_version[ui[s].user] + 1 <= MaxVersion
    /\ store' = store \cup { Row(next_id, ui[s].user, ui[s].season, form.ranked,
                                 form.hero, form.wins, form.finished) }
    /\ next_id' = next_id + 1
    /\ ui' = [ui EXCEPT ![s].handler = "created"]
    /\ UNCHANGED <<game_data_version, tasks, arg, ret, context>>

\* delete_game -> delete_game_by_id, lines 90-101: the run of the clicked row
\* is looked up for the current user, deleted, and the version is increased
DeleteRun(s, g) ==
    /\ ui[s].loaded
    /\ ui[s].handler = "idle"
    /\ game_data_version[ui[s].user] + 2 <= MaxVersion
    /\ g \in store
    /\ g.player_id = ui[s].user
    /\ g.season = ui[s].season
    /\ store' = store \ { g }
    /\ game_data_version' = mark_games_changed(game_data_version, ui[s].user)
    /\ ui' = [ui EXCEPT ![s].handler = "deleted"]
    /\ UNCHANGED <<next_id, tasks, arg, ret, context>>

\* create, lines 514-517, and delete_game, lines 484-489, after load_page:
\* stats_tables.refresh(), mark_games_changed(user.id), session_version = ...;
\* create then resets the form (lines 519-526)
HandlerFinish(s) ==
    /\ ui[s].handler \in { "created", "deleted" }
    /\ Quiet
    /\ tasks' = Spawn(tasks, s, FALSE)
    /\ game_data_version' = mark_games_changed(game_data_version, ui[s].user)
    /\ ui' = [ui EXCEPT ![s].handler = "idle",
                        ![s].session_version = game_data_version'[ui[s].user],
                        ![s].wins = IF ui[s].handler = "created" THEN 0 ELSE @,
                        ![s].finished = IF ui[s].handler = "created" THEN 0 ELSE @]
    /\ UNCHANGED <<store, next_id, arg, ret, context>>

\* refresh_if_needed, lines 881-887, run by ui.timer(1.0, ...)
refresh_if_needed(s) ==
    /\ ui[s].loaded
    /\ ui[s].session_version # game_data_version[ui[s].user]
    /\ Quiet
    /\ ui' = [ui EXCEPT ![s].session_version = game_data_version[ui[s].user]]
    /\ tasks' = Spawn(tasks, s, FALSE)
    /\ UNCHANGED <<store, game_data_version, next_id, arg, ret, context>>

Next ==
    \/ \E t \in Running : StatsHasData(t)
    \/ \E t \in Running : StatsGetHeroes(t)
    \/ \E t \in Running : StatsCollectRanked(t)
    \/ \E t \in Running : StatsCollectUnranked(t)
    \/ \E t \in Running : StatsPercentages(t)
    \/ \E t \in Running : StatsEmit(t)
    \/ \E s \in Sessions, form \in FormInputs : CreateRun(s, form)
    \/ \E s \in Sessions, g \in store : DeleteRun(s, g)
    \/ \E s \in Sessions : HandlerFinish(s)
    \/ \E s \in Sessions : refresh_if_needed(s)

Spec == Init /\ [][Next]_vars


-----------------------------------------------------------------------------
(* The hero x category tables *)

\* the coroutines that have built the rows of both tables
Built == { t \in Running : t.pc \in { "percentages", "runs_per_hero" } }

\* the two tables of a coroutine: what collect_stats read, and the rows
TablesOf(t) ==
    { [part |-> t.ranked, rows |-> t.ranked_rows],
      [part |-> t.unranked, rows |-> t.unranked_rows] }

\* the rows above the last one
HeroRowsOf(rows) == SubSeq(rows, 1, Len(rows) - 1)

\* the hero rows are strictly ascending, and their heroes are the roster and
\* the canonical forms of the given stored names, and nothing else
HeroRowsAre(rows, names) ==
    LET hero_rows == HeroRowsOf(rows)
        row_heroes == { hero_rows[i]["hero"] : i \in 1..Len(hero_rows) }
    IN  /\ \A i \in 2..Len(hero_rows) :
              StrLess(hero_rows[i - 1]["hero"], hero_rows[i]["hero"])
        /\ \A h \in { Dooley, Mak, Pygmalien, Vanessa, Stelle, Jules } :
              h \in row_heroes
        /\ \A n \in names :
              \E h \in row_heroes : IsCanonical(h) /\ SameIgnoringCase(n, h)
        /\ \A h \in row_heroes :
              \/ h \in { Dooley, Mak, Pygmalien, Vanessa, Stelle, Jules }
              \/ \E n \in names : SameIgnoringCase(n, h)

TotalRowSums(rows) ==
    /\ Len(rows) >= 1
    /\ rows[Len(rows)]["hero"] = << "T", "o", "t", "a", "l" >>
    /\ \A cat \in { "No Placement", "3rd", "2nd", "1st", "Perfect Game" } :
          rows[Len(rows)][cat] = SumSeq([i \in 1..(Len(rows) - 1) |-> rows[i][cat]])

\* C8: in every emitted table the last row is a Total row whose value in each
\* category column is the sum of that column over the hero rows, also after
\* runs have been created and deleted.
C8_TotalRow ==
    /\ \A t \in Built : \A tb \in TablesOf(t) : TotalRowSums(tb.rows)
    /\ \A s \in Sessions :
          /\ ui[s].ranked_table.exists => TotalRowSums(ui[s].ranked_table.data)
          /\ ui[s].unranked_table.exists => TotalRowSums(ui[s].unranked_table.data)

\* a page shows, after a run was created, a ranked table whose Total row
\* counts runs of two heroes
C8_Witness ==
    \E s \in Sessions :
        /\ ui[s].ranked_table.exists
        /\ game_data_version[ui[s].user] > 0
        /\ LET rows == ui[s].ranked_table.data
           IN  /\ rows[Len(rows)]["1st"] = 1
               /\ rows[Len(rows)]["3rd"] = 1

\* every count of every row is zero
AllZero(rows) ==
    \A i \in 1..Len(rows) :
        \A cat \in { "No Placement", "3rd", "2nd", "1st", "Perfect Game" } :
            rows[i][cat] = 0

\* the stored hero names that are a roster name up to letter case
InRoster(names) ==
    \A n \in names :
        \E h \in { Dooley, Mak, Pygmalien, Vanessa, Stelle, Jules } :
            SameIgnoringCase(n, h)

C10_NoAllZeroTable ==
    \A t \in Built : \A tb \in TablesOf(t) : ~AllZero(tb.rows)

\* the widgets of a session are all None
Suppressed(u) ==
    /\ ~u.ranked_table.exists
    /\ ~u.unranked_table.exists
    /\ ~u.placement_chart.exists
    /\ ~u.hero_chart.exists

\* C10 amended: when the owner has no run in the season at the has_data
\* query of stats_tables, the call returns there, with both tables and both
\* charts suppressed (a table of a ranked flag without runs is emitted, all
\* zero, when the owner has runs of the other flag).
C10_SuppressedWhenSeasonEmpty ==
    [][ \A t \in Running :
          ( /\ t.pc = "has_data"
            /\ CopiesIn(t, tasks') < CopiesIn(t, tasks)
            /\ ~\E g \in store : g.player_id = ui[t.session].user
                                 /\ g.season = ui[t.session].season )
          => /\ tasks' = Without(tasks, t)
             /\ Suppressed(ui'[t.session]) ]_vars

\* a page that showed tables has them suppressed after its last run was
\* deleted
C10_Witness ==
    \E s \in Sessions :
        /\ ui[s].loaded
        /\ Suppressed(ui[s])
        /\ Quiet
        /\ game_data_version[ui[s].user] = 2
        /\ ~\E g \in store : g.player_id = ui[s].user

-----------------------------------------------------------------------------
(* The two tables and the placement percentages *)

\* the runs both collect_stats calls of a coroutine have read
RunsRead(t) == t.ranked.games \cup t.unranked.games

\* the number of the given runs that fall in a category
CountCat(games, cat) ==
    Cardinality({ g \in games : categorize_game(g) = cat })

\* the Total row of the ranked table plus that of the unranked table
BothTotals(t) ==
    [cat \in CategorySet |->
        t.ranked_rows[Len(t.ranked_rows)][cat]
        + t.unranked_rows[Len(t.unranked_rows)][cat]]

\* C11: the runs are partitioned by the ranked flag: no run is counted in
\* both tables, every run read is counted in the table of its flag, and for
\* each category the ranked Total plus the unranked Total is the number of
\* runs of that category; when the store holds the same runs of the owner
\* and season as were read (the same snapshot), these sums are the counts
\* compute_placement_percentages turns into its percentages.
C11_RankedPartition ==
    \A t \in Built :
        /\ t.ranked.games \cap t.unranked.games = {}
        /\ \A g \in t.ranked.games : g.ranked
        /\ \A g \in t.unranked.games : ~g.ranked
        /\ \A cat \in CategorySet :
              BothTotals(t)[cat] = CountCat(RunsRead(t), cat)
        /\ FilterSeason(ui[t.session].user, ui[t.session].season) = RunsRead(t)
           => LET sums == BothTotals(t)
                  total == SumValues(sums)
              IN  /\ total = Cardinality(RunsRead(t))
                  /\ compute_placement_percentages(ui[t.session].user,
                                                   ui[t.session].season).percentages
                     = [i \in 1..Len(categories) |->
                           IF total # 0 THEN PyRound2(sums[categories[i]], total)
                           ELSE 0]

\* both tables have counted runs of the same snapshot: a ranked 3rd place,
\* a ranked 1st place and an unranked Perfect Game
C11_Witness ==
    \E t \in Built :
        /\ FilterSeason(ui[t.session].user, ui[t.session].season) = RunsRead(t)
        /\ t.ranked_rows[Len(t.ranked_rows)]["3rd"] = 1
        /\ t.ranked_rows[Len(t.ranked_rows)]["1st"] = 1
        /\ t.unranked_rows[Len(t.unranked_rows)]["Perfect Game"] = 1
        /\ BothTotals(t)["Perfect Game"] = 1

-----------------------------------------------------------------------------
(* The runs-per-hero chart *)

\* the heroes the chart of a session has a bar for
ChartHeroes(chart) == { chart.names[i] : i \in 1..Len(chart.names) }

\* the value of the bar of a hero
ChartValue(chart, h) ==
    chart.values[CHOOSE i \in 1..Len(chart.names) : chart.names[i] = h]

\* C12: the runs-per-hero output that stats_tables displays for the runs it
\* has just read has an entry for every hero of the roster, zero when that
\* hero has no run, and an entry for every canonicalized hero that has at
\* least one run: no run is left out of the displayed output.
C12_EveryHeroHasEntry ==
    [][ \A t \in Running :
          ( t.pc = "runs_per_hero" /\ tasks' = Without(tasks, t) )
          => LET chart == ui'[t.session].hero_chart.data
                 games == FilterSeason(ui[t.session].user, ui[t.session].season)
             IN  /\ \A h \in RosterSet :
                       /\ h \in ChartHeroes(chart)
                       /\ (~\E g \in games : Canon(g.hero) = h)
                          => ChartValue(chart, h) = 0
                 /\ \A g \in games : Canon(g.hero) \in ChartHeroes(chart) ]_vars

-----------------------------------------------------------------------------
(* The list of games of a dashboard page: load_page, delete_game, create   *)
(* and refresh_if_needed, with every await as a step of its own.           *)
(* A coroutine is a record in tasks.  context.session and context.season   *)
(* are attributes of the one context object of the process: whichever page *)
(* function or load_page ran last has set them.  A dashboard page is only  *)
(* built for a session that has a user_id (main.py:279-285), and nothing   *)
(* deletes a row of Users, so that load_page finds its user.  The          *)
(* stats_tables coroutines, which read the store and write the tables and  *)
(* charts only, are started where the flag stats is TRUE.                  *)

\* page_size, main.py:293
page_size == 8

\* the largest number of list coroutines that run at the same time
MaxTasks == 2

Min(a, b) == IF a <= b THEN a ELSE b

Max(a, b) == IF a >= b THEN a ELSE b

RECURSIVE OrderByPlayedDesc(_)
\* .order_by('-played'): the store stamps played when it creates the row
\* (models.py:17), so that the row with the larger id is the more recent
OrderByPlayedDesc(games) ==
    IF games = {} THEN << >>
    ELSE LET g == CHOOSE x \in games : \A y \in games : y.id <= x.id
         IN  << g >> \o OrderByPlayedDesc(games \ { g })

\* .offset(offset).limit(limit)
OffsetLimit(rows, offset, limit) ==
    SubSeq(rows, offset + 1, Min(Len(rows), offset + limit))

\* total_pages = max((total_games + page_size - 1) // page_size, 1)
TotalPages(total_games) ==
    Max((total_games + page_size - 1) \div page_size, 1)

\* pagination_row after pagination_row.clear()
NoPagination ==
    [shown |-> FALSE, current_page |-> 0, total_pages |-> 0,
     previous |-> FALSE, next |-> FALSE]

\* the nonlocals of index() of a page whose list has not been loaded yet
ListPage(user_id, season) ==
    [user |-> user_id, season |-> season,
     request_session |-> RequestSession(user_id),
     current_page |-> 1, game_rows |-> << >>, pagination |-> NoPagination]
    @@ FreshPage

\* the ids of a sequence of rows
Ids(rows) == [i \in 1..Len(rows) |-> rows[i].id]

\* a sequence without the given element
Remove(seq, x) == SelectSeq(seq, LAMBDA y : y # x)

\* game_rows and pagination_row as load_page leaves them (lines 455-475)
Listed(page, games, total_pages) ==
    [page EXCEPT
        !.game_rows = Ids(games),
        !.pagination =
            IF games # << >>
            THEN [shown |-> TRUE, current_page |-> page.current_page,
                  total_pages |-> total_pages,
                  previous |-> page.current_page > 1,
                  next |-> page.current_page < total_pages]
            ELSE NoPagination]

\* the page of a session once list_of_games() has run with nothing else
\* running (line 875)
LoadedPage(user_id, season) ==
    LET rows == OrderByPlayedDesc(FilterSeason(user_id, season))
    IN  [Listed(ListPage(user_id, season), OffsetLimit(rows, 0, page_size),
                TotalPages(Len(rows)))
         EXCEPT !.loaded = TRUE]

\* the locals of a coroutine of the list: kind is the handler that started
\* it ("delete_game", "create" or "load_page"), pc its pending await
ListTask(kind, s, pc) ==
    [kind |-> kind, session |-> s, pc |-> pc, game_id |-> 0, page_number |-> 0,
     user_id |-> 0, current_season |-> 0, total_pages |-> 0, offset |-> 0,
     get_or_none_calls |-> 0]

\* there is room for another coroutine
Room == BagCardinality(tasks) < MaxTasks

\* no coroutine of the page is running
Idle(s) == ~\E t \in Running : t.session = s

\* what a delete_game_by_id call leaves behind when it returns
DeleteOutcome(t, value, notified) ==
    Returned([user_id |-> t.user_id, value |-> value, notified |-> notified,
              get_or_none_calls |-> t.get_or_none_calls])

\* load_page up to its first await (lines 435-437): context.session and
\* context.season are set, get_current_user reads context.session
EnterLoadPage(t, s, page_number) ==
    [t EXCEPT !.pc = "lp_user", !.page_number = page_number,
              !.user_id = ui[s].request_session.user_id]

\* context.session = request.session; context.season = season.value
ContextOf(s) == [session |-> ui[s].request_session, season |-> ui[s].season]
\* a mutant of DeleteClick: the user is not checked before the row is
\* looked up
DeleteClickUnchecked(s, g) ==
    /\ ui[s].loaded
    /\ \E i \in 1..Len(ui[s].game_rows) : ui[s].game_rows[i] = g
    /\ game_data_version[ui[s].user] + 2 <= MaxVersion
    /\ ret' = ret
    /\ tasks' = tasks (+) SetToBag({
            [ListTask("delete_game", s, "users_get") EXCEPT
                !.game_id = g, !.user_id = context.session.user_id] })
    /\ UNCHANGED <<store, game_data_version, next_id, ui, arg, context>>

\* delete_game (line 478) -> delete_game_by_id (lines 90-93) ->
\* get_current_user up to its await (lines 156-162): the delete button of a
\* listed row is clicked
DeleteClick(s, g) ==
    /\ ui[s].loaded
    /\ \E i \in 1..Len(ui[s].game_rows) : ui[s].game_rows[i] = g
    /\ game_data_version[ui[s].user] + 2 <= MaxVersion
    /\ LET user_id == context.session.user_id
           t == [ListTask("delete_game", s, "users_get") EXCEPT
                    !.game_id = g, !.user_id = user_id]
       IN  IF user_id = 0
           THEN /\ ret' = DeleteOutcome(t, FALSE, << "Unauthorized" >>)
                /\ tasks' = tasks
           ELSE /\ ret' = ret
                /\ tasks' = tasks (+) SetToBag({ t })
    /\ UNCHANGED <<store, game_data_version, next_id, ui, arg, context>>

\* get_current_user, line 162: the user is returned; delete_game_by_id,
\* line 95: Game.get_or_none(id=game_id, player_id=user.id) is called
DeleteUsersGet(t) ==
    /\ t.pc = "users_get"
    /\ tasks' = Without(tasks, t) (+) SetToBag({
            [t EXCEPT !.pc = "game_get", !.get_or_none_calls = @ + 1] })
    /\ UNCHANGED <<store, game_data_version, next_id, ui, arg, ret, context>>

\* a mutant of DeleteGameGet: the row is looked up by its id alone
DeleteGameGetAnyOwner(t) ==
    /\ t.pc = "game_get"
    /\ IF \E g \in store : g.id = t.game_id
       THEN /\ tasks' = Without(tasks, t) (+) SetToBag({ [t EXCEPT !.pc = "game_delete"] })
            /\ ret' = ret
       ELSE /\ tasks' = Without(tasks, t)
            /\ ret' = DeleteOutcome(t, FALSE, << "Unauthorized" >>)
    /\ UNCHANGED <<store, game_data_version, next_id, ui, arg, context>>

\* delete_game_by_id, lines 95-99: the row is looked up for the user
DeleteGameGet(t) ==
    /\ t.pc = "game_get"
    /\ IF \E g \in store : g.id = t.game_id /\ g.player_id = t.user_id
       THEN /\ tasks' = Without(tasks, t) (+) SetToBag({ [t EXCEPT !.pc = "game_delete"] })
            /\ ret' = ret
       ELSE /\ tasks' = Without(tasks, t)
            /\ ret' = DeleteOutcome(t, FALSE, << "Unauthorized" >>)
    /\ UNCHANGED <<store, game_data_version, next_id, ui, arg, context>>

\* delete_game_by_id, lines 99-101: the row is deleted and the version of
\* the user is increased; delete_game, lines 481-484: the row leaves the
\* list and load_page(current_page) runs to its first await
DeleteGameDelete(t) ==
    /\ t.pc = "game_delete"
    /\ store' = { g \in store : g.id # t.game_id }
    /\ game_data_version' = mark_games_changed(game_data_version, t.user_id)
    /\ ret' = DeleteOutcome(t, TRUE, << >>)
    /\ ui' = [ui EXCEPT ![t.session].game_rows = Remove(@, t.game_id)]
    /\ context' = ContextOf(t.session)
    /\ tasks' = Without(tasks, t) (+) SetToBag({
            EnterLoadPage(t, t.session, ui[t.session].current_page) })
    /\ UNCHANGED <<next_id, arg>>

\* create, lines 496-514: the row is created (the Add Run button is
\* disabled while create runs), and load_page(current_page) runs to its
\* first await
CreateClick(s, form) ==
    /\ ui[s].loaded
    /\ ~\E t \in Running : t.session = s /\ t.kind = "create"
    /\ game_data_version[ui[s].user] + 1 <= MaxVersion
    /\ store' = store \cup { Row(next_id, ui[s].user, ui[s].season, form.ranked,
                                 form.hero, form.wins, form.finished) }
    /\ next_id' = next_id + 1
    /\ context' = ContextOf(s)
    /\ tasks' = tasks (+) SetToBag({
            EnterLoadPage(ListTask("create", s, "lp_user"), s, ui[s].current_page) })
    /\ UNCHANGED <<game_data_version, ui, arg, ret>>

\* the Next button (line 475): list_of_games.refresh(page_number =
\* current_page + 1) starts load_page
NextClick(s) ==
    /\ ui[s].loaded
    /\ ui[s].pagination.next
    /\ context' = ContextOf(s)
    /\ tasks' = tasks (+) SetToBag({
            EnterLoadPage(ListTask("load_page", s, "lp_user"), s,
                          ui[s].current_page + 1) })
    /\ UNCHANGED <<store, game_data_version, next_id, ui, arg, ret>>

\* refresh_if_needed, lines 881-887, run by ui.timer: load_page(current_page)
\* and, where stats is TRUE, stats_tables are started
RefreshTimer(s, stats) ==
    /\ ui[s].loaded
    /\ ui[s].session_version # game_data_version[ui[s].user]
    /\ ui' = [ui EXCEPT ![s].session_version = game_data_version[ui[s].user]]
    /\ context' = ContextOf(s)
    /\ tasks' = tasks
                (+) SetToBag({ EnterLoadPage(ListTask("load_page", s, "lp_user"), s,
                                             ui[s].current_page) })
                (+) (IF stats THEN SetToBag({ NewTask(s, FALSE) }) ELSE EmptyBag)
    /\ UNCHANGED <<store, game_data_version, next_id, arg, ret>>

\* load_page, lines 437-446: the user is returned, current_page and
\* current_season are assigned, the count query is made
LoadPageUser(t) ==
    /\ t.pc = "lp_user"
    /\ ui' = [ui EXCEPT ![t.session].current_page = t.page_number]
    /\ tasks' = Without(tasks, t) (+) SetToBag({
            [t EXCEPT !.pc = "lp_count", !.current_season = context.season] })
    /\ UNCHANGED <<store, game_data_version, next_id, arg, ret, context>>

\* load_page, lines 446-454: the runs are counted, current_page is clamped
\* to total_pages, the query of the page is made
LoadPageCount(t) ==
    /\ t.pc = "lp_count"
    /\ LET total_games == Cardinality(FilterSeason(t.user_id, t.current_season))
           total_pages == TotalPages(total_games)
           current_page == Min(ui[t.session].current_page, total_pages)
       IN  /\ ui' = [ui EXCEPT ![t.session].current_page = current_page]
           /\ tasks' = Without(tasks, t) (+) SetToBag({
                   [t EXCEPT !.pc = "lp_games", !.total_pages = total_pages,
                             !.offset = (current_page - 1) * page_size] })
    /\ UNCHANGED <<store, game_data_version, next_id, arg, ret, context>>

\* load_page, lines 451-475: the runs of the page are returned, the list
\* and the pagination row are rebuilt; for delete_game (lines 486-489) and
\* create (lines 515-517) then stats_tables.refresh(),
\* mark_games_changed(user.id), session_version = game_data_version[user.id];
\* create then resets the sliders of the form (lines 521-522)
LoadPageGames(t, stats) ==
    /\ t.pc = "lp_games"
    /\ t.offset >= 0
    /\ LET s == t.session
           games == OffsetLimit(OrderByPlayedDesc(FilterSeason(t.user_id, t.current_season)),
                                t.offset, page_size)
           page == Listed(ui[s], games, t.total_pages)
       IN  IF t.kind = "load_page"
           THEN /\ ui' = [ui EXCEPT ![s] = page]
                /\ tasks' = Without(tasks, t)
                /\ game_data_version' = game_data_version
           ELSE /\ game_data_version' = mark_games_changed(game_data_version, page.user)
                /\ ui' = [ui EXCEPT ![s] =
                            [page EXCEPT
                                !.session_version = game_data_version'[page.user],
                                !.wins = IF t.kind = "create" THEN 0 ELSE @,
                                !.finished = IF t.kind = "create" THEN 0 ELSE @]]
                /\ tasks' = Without(tasks, t)
                            (+) (IF stats THEN SetToBag({ NewTask(s, FALSE) }) ELSE EmptyBag)
    /\ UNCHANGED <<store, next_id, arg, ret, context>>

\* login_page, line 202: a browser that is not logged in opens '/'
LoginPageVisit ==
    /\ context.session # RequestSession(0)
    /\ context' = [context EXCEPT !.session = RequestSession(0)]
    /\ UNCHANGED <<store, game_data_version, next_id, tasks, ui, arg, ret>>

\* index, lines 253-277: the browser of another user opens its dashboard of
\* the given season (the page that is built for it is not part of the state)
OtherDashboardVisit(user_id, season) ==
    /\ context # [session |-> RequestSession(user_id), season |-> season]
    /\ context' = [session |-> RequestSession(user_id), season |-> season]
    /\ UNCHANGED <<store, game_data_version, next_id, tasks, ui, arg, ret>>

-----------------------------------------------------------------------------
(* SpecDel: two dashboard pages of one user on one store, with the browser *)
(* of another user and a browser that is not logged in opening pages.  A   *)
(* page starts a handler when none of its coroutines is running; the two   *)
(* pages list the same rows, so that the delete button of a row is clicked *)
(* on both.                                                                *)

InitDel ==
    /\ store = LegacyRows \cup { OtherUsersRow }
    /\ next_id = 4
    /\ game_data_version = [u \in { TheUser.id, OtherUser.id } |-> 0]
    /\ ui = [s \in Sessions |-> LoadedPage(TheUser.id, TheSeason.value)]
    /\ tasks = EmptyBag
    /\ arg = << >>
    /\ ret = Pending
    /\ \E u \in { 0, TheUser.id, OtherUser.id } :
          context = [session |-> RequestSession(u), season |-> TheSeason.value]

NextDel ==
    \/ \E s \in Sessions : \E g \in SeqToSet(ui[s].game_rows) :
          Idle(s) /\ DeleteClick(s, g)
    \/ \E t \in Running : DeleteUsersGet(t)
    \/ \E t \in Running : DeleteGameGet(t)
    \/ \E t \in Running : DeleteGameDelete(t)
    \/ \E s \in Sessions, form \in FormInputs : Idle(s) /\ CreateClick(s, form)
    \/ \E t \in Running : LoadPageUser(t)
    \/ \E t \in Running : LoadPageCount(t)
    \/ \E t \in Running : LoadPageGames(t, FALSE)
    \/ \E s \in Sessions : Idle(s) /\ RefreshTimer(s, FALSE)
    \/ LoginPageVisit
    \/ OtherDashboardVisit(OtherUser.id, TheSeason.value)

SpecDel == InitDel /\ [][NextDel]_vars

-----------------------------------------------------------------------------
(* Deleting a run *)

\* the coroutine takes a step
Steps(t) == CopiesIn(t, tasks') < CopiesIn(t, tasks)

\* the lookup of delete_game_by_id finds the run for its user
Found(t) == \E g \in store : g.id = t.game_id /\ g.player_id = t.user_id

\* C13: a run leaves the store only by a delete_game_by_id call of an
\* authenticated user whose lookup found it as a run of that user, and that
\* user is the user of the page that made the call; the call then returns
\* True and removes that run and nothing else.  A call whose lookup finds
\* no such run (it does not exist, or it belongs to another user) returns
\* False, notifies 'Unauthorized', and leaves the store and every version
\* counter as they are.  No run of another user is ever deleted.
C13_DeleteOnlyOwnGame ==
    [][ /\ \A g \in store \ store' :
              \E t \in Running :
                 /\ t.pc = "game_delete" /\ Steps(t)
                 /\ t.game_id = g.id
                 /\ t.user_id # 0
                 /\ g.player_id = t.user_id
                 /\ g.player_id = ui[t.session].user
        /\ \A t \in Running :
              (t.pc = "game_delete" /\ Steps(t))
              => /\ ret' = DeleteOutcome(t, TRUE, << >>)
                 /\ store' = { g \in store : g.id # t.game_id }
        /\ \A t \in Running :
              (t.pc = "game_get" /\ Steps(t))
              => /\ store' = store
                 /\ game_data_version' = game_data_version
                 /\ IF Found(t)
                    THEN \E n \in BagToSet(tasks') :
                            n = [t EXCEPT !.pc = "game_delete"]
                    ELSE /\ ret' = DeleteOutcome(t, FALSE, << "Unauthorized" >>)
                         /\ BagCardinality(tasks') < BagCardinality(tasks) ]_vars

\* a call of the user has returned True: the run it was made for is gone,
\* the other runs, also that of the other user, are there
C13_Witness ==
    /\ ret.done
    /\ ret.value.value
    /\ ret.value.user_id = TheUser.id
    /\ { g.id : g \in store } = { 2, OtherUsersRow.id }
    /\ context.session.user_id = TheUser.id

\* C14: with no authenticated user delete_game_by_id returns False at once,
\* with exactly one notification, 'Unauthorized', and without a call of
\* Game.get_or_none: nothing is deleted, no version counter changes, and no
\* call without a user is ever waiting for the store.
C14_UnauthenticatedDelete ==
    [][ /\ (ret' # ret /\ ret'.done /\ ret'.value.user_id = 0)
           => /\ context.session.user_id = 0
              /\ ~ret'.value.value
              /\ ret'.value.notified = << "Unauthorized" >>
              /\ ret'.value.get_or_none_calls = 0
              /\ UNCHANGED <<store, game_data_version, tasks, ui>>
        /\ \A t \in BagToSet(tasks') :
              t.kind = "delete_game" => t.user_id # 0 ]_vars

\* a delete button was clicked while the session in context had no user
C14_Witness ==
    /\ ret = Returned([user_id |-> 0, value |-> FALSE,
                       notified |-> << "Unauthorized" >>, get_or_none_calls |-> 0])
    /\ store = LegacyRows \cup { OtherUsersRow }
    /\ tasks = EmptyBag
    /\ \A u \in DOMAIN game_data_version : game_data_version[u] = 0

-----------------------------------------------------------------------------
(* Aggregation and the store *)

\* the awaits of stats_tables
StatsPcs ==
    { "has_data", "heroes_ranked", "games_ranked", "heroes_unranked",
      "games_unranked", "percentages", "runs_per_hero" }

\* C16: aggregation is read-only: no step of stats_tables, which calls
\* collect_stats, compute_placement_percentages and compute_runs_per_hero,
\* changes a run record, the set of stored runs or a version counter.
C16_AggregationReadOnly ==
    [][ (\E t \in Running : t.pc \in StatsPcs /\ Steps(t))
        => /\ store' = store
           /\ game_data_version' = game_data_version
           /\ next_id' = next_id ]_vars

\* a page has been built from two runs: its tables and charts are shown,
\* the store holds the runs it held, the counters are 0
C16_Witness ==
    /\ ui["s1"].loaded
    /\ ui["s1"].ranked_table.exists
    /\ ui["s1"].hero_chart.exists
    /\ store = LegacyRows \cup { OtherUsersRow }
    /\ \A u \in DOMAIN game_data_version : game_data_version[u] = 0
    /\ Quiet

-----------------------------------------------------------------------------
(* The tables and the runs collect_stats read *)

\* C19: in each table, in every interleaving, the five values of the Total
\* row sum to the number of runs collect_stats read for it, every run read
\* has the row of its hero, and each row counts the runs read of its hero by
\* category: no run that was read is missing, also when a run of a hero
\* that get_heroes had not seen was created before the run query.
C19_TotalCountsRunsRead ==
    \A t \in Built : \A tb \in TablesOf(t) :
        LET hero_rows == HeroRowsOf(tb.rows)
        IN  /\ Len(tb.rows) >= 1
            /\ SumValues(tb.rows[Len(tb.rows)]) = Cardinality(tb.part.games)
            /\ \A g \in tb.part.games :
                  \E i \in 1..Len(hero_rows) : hero_rows[i]["hero"] = Canon(g.hero)
            /\ \A i \in 1..Len(hero_rows) : \A cat \in CategorySet :
                  hero_rows[i][cat]
                  = Cardinality({ g \in tb.part.games :
                                     /\ Canon(g.hero) = hero_rows[i]["hero"]
                                     /\ categorize_game(g) = cat })

\* the ranked runs that were read include a run of a hero that the stored
\* names get_heroes had read did not include, and the Total row counts it
C19_Witness ==
    \E t \in Built :
        /\ \E g \in t.ranked.games :
              \A n \in t.ranked.hero_values : ~SameIgnoringCase(n, g.hero)
        /\ Cardinality(t.ranked.games) = 2
        /\ SumValues(t.ranked_rows[Len(t.ranked_rows)]) = 2

-----------------------------------------------------------------------------
(* SpecPage: two dashboard pages of one user whose runs fill up to two     *)
(* pages of the list.  A page starts a handler when none of its coroutines *)
(* is running.                                                             *)

\* the largest number of runs the user has when the pages are opened
MaxGames == 9

\* the runs of the user, the one with the larger id played later
GamesOfUser(n) ==
    { Row(i, TheUser.id, TheSeason.value, TRUE, Mak, 5, 8) : i \in 1..n }

InitPage ==
    /\ \E n \in 0..MaxGames : store = GamesOfUser(n) /\ next_id = n + 1
    /\ game_data_version = [u \in { TheUser.id, OtherUser.id } |-> 0]
    /\ ui = [s \in Sessions |-> LoadedPage(TheUser.id, TheSeason.value)]
    /\ tasks = EmptyBag
    /\ arg = << >>
    /\ ret = Pending
    /\ context = [session |-> RequestSession(TheUser.id), season |-> TheSeason.value]

NextPage ==
    \/ \E s \in Sessions : Idle(s) /\ NextClick(s)
    \/ \E s \in Sessions : \E g \in SeqToSet(ui[s].game_rows) :
          Idle(s) /\ DeleteClick(s, g)
    \/ \E t \in Running : DeleteUsersGet(t)
    \/ \E t \in Running : DeleteGameGet(t)
    \/ \E t \in Running : DeleteGameDelete(t)
    \/ \E s \in Sessions, form \in FormInputs : Idle(s) /\ CreateClick(s, form)
    \/ \E t \in Running : LoadPageUser(t)
    \/ \E t \in Running : LoadPageCount(t)
    \/ \E t \in Running : LoadPageGames(t, FALSE)
    \/ \E s \in Sessions : Idle(s) /\ RefreshTimer(s, FALSE)

SpecPage == InitPage /\ [][NextPage]_vars

\* ceil(a / b) for a >= 0 and b > 0
CeilDiv(a, b) == CHOOSE k \in 0..a : k * b >= a /\ (k - 1) * b < a

\* C20: when load_page(p) completes for an authenticated user and p >= 1,
\* current_page = min(p, total_pages) with total_pages = max(ceil(total_games
\* / 8), 1), at most 8 runs are listed, and they are the runs at offsets
\* (current_page - 1) * 8 onward, the most recent first; the list is not
\* empty when the user has a run in the season.
C20_PageAfterLoad ==
    [][ \A t \in Running :
          (t.pc = "lp_games" /\ Steps(t) /\ t.user_id # 0 /\ t.page_number >= 1)
          => LET page == ui'[t.session]
                 runs == OrderByPlayedDesc(FilterSeason(page.user, page.season))
                 total_pages == Max(CeilDiv(Len(runs), 8), 1)
                 first == (page.current_page - 1) * 8 + 1
             IN  /\ page.current_page = Min(t.page_number, total_pages)
                 /\ Len(page.game_rows) <= 8
                 /\ page.game_rows
                    = Ids(SubSeq(runs, first, Min(Len(runs), first + 7)))
                 /\ runs # << >> => page.game_rows # << >> ]_vars


-----------------------------------------------------------------------------
(* SpecRefresh: the refresh of the list.  Two dashboard pages of one user; *)
(* the timer of a page fires whenever its session_version differs from the *)
(* counter, also while a coroutine of the page is waiting for the store    *)
(* (ui.timer does not wait for load_page), so that load_page coroutines of *)
(* one page overlap; at most MaxTasks coroutines wait at the same time.    *)
(* The timers and the awaits are weakly fair: ui.timer calls               *)
(* refresh_if_needed every second, and the event loop resumes every        *)
(* coroutine whose query has returned; clicks are not fair.                *)

InitRefresh ==
    /\ store = GamesOfUser(MaxGames)
    /\ next_id = MaxGames + 1
    /\ game_data_version = [u \in { TheUser.id, OtherUser.id } |-> 0]
    /\ ui = [s \in Sessions |-> LoadedPage(TheUser.id, TheSeason.value)]
    /\ tasks = EmptyBag
    /\ arg = << >>
    /\ ret = Pending
    /\ context = [session |-> RequestSession(TheUser.id), season |-> TheSeason.value]

\* what the user does
Clicks ==
    \/ \E s \in Sessions : Idle(s) /\ NextClick(s)
    \/ \E s \in Sessions : \E g \in SeqToSet(ui[s].game_rows) :
          Idle(s) /\ DeleteClick(s, g)
    \/ \E s \in Sessions, form \in FormInputs : Idle(s) /\ CreateClick(s, form)

\* ui.timer(1.0, refresh_if_needed) of a page
Timer(s) == RefreshTimer(s, FALSE)

\* the event loop resumes a coroutine
Resume(t) ==
    \/ DeleteUsersGet(t)
    \/ DeleteGameGet(t)
    \/ DeleteGameDelete(t)
    \/ LoadPageUser(t)
    \/ LoadPageCount(t)
    \/ LoadPageGames(t, FALSE)

NextRefresh ==
    \/ Room /\ Clicks
    \/ \E s \in Sessions : Room /\ Timer(s)
    \/ \E t \in Running : Resume(t)

SpecRefresh ==
    /\ InitRefresh
    /\ [][NextRefresh]_vars
    /\ \A s \in Sessions : WF_vars(Room /\ Timer(s))
    /\ WF_vars(\E t \in Running : Resume(t))

-----------------------------------------------------------------------------
(* Refreshing after a change *)

\* nothing is left to happen unless the user clicks: no coroutine is
\* waiting and every page has seen the counter of its user
Settled ==
    /\ tasks = EmptyBag
    /\ \A s \in Sessions : ui[s].session_version = game_data_version[ui[s].user]

\* the list of the page is a page of the runs the store holds for the user
\* and season of the page, the most recent first
ListFresh(s) ==
    LET rows == OrderByPlayedDesc(FilterSeason(ui[s].user, ui[s].season))
    IN  \E p \in 1..TotalPages(Len(rows)) :
           ui[s].game_rows = Ids(OffsetLimit(rows, (p - 1) * page_size, page_size))

\* C17: with fair timers, once the creations and deletions of the runs of a
\* user have stopped, every page of the user comes to rest with its
\* session_version equal to the counter and its list showing the store:
\* a state in which nothing is pending shows the store on every page.
C17_SettledShowsStore ==
    Settled => \A s \in Sessions : ListFresh(s)


-----------------------------------------------------------------------------
(* SpecColour: the colour add_row gives to the Win/Day label of a row,     *)
(* for every pair of small integers                                        *)

\* a mutant of placement_color: gold for every run with ten wins that is
\* not a perfect game
placement_color_ten_wins(game) ==
    IF game.wins = 10 /\ game.finished = 10 THEN "text-white"
    ELSE IF game.wins = 10 THEN "text-yellow-400"
    ELSE IF game.wins >= 7 THEN "text-gray-400"
    ELSE IF game.wins >= 4 THEN "text-[#cd7f32]"
    ELSE "text-gray-500"

\* add_row, lines 356-362
placement_color(game) ==
    IF game.wins = 10 /\ game.finished = 10 THEN "text-white"
    ELSE IF game.wins = 10 /\ game.finished > 10 THEN "text-yellow-400"
    ELSE IF game.wins >= 7 THEN "text-gray-400"
    ELSE IF game.wins >= 4 THEN "text-[#cd7f32]"
    ELSE "text-gray-500"

InitColour ==
    /\ arg \in [wins : IntInputs, finished : IntInputs]
    /\ ret = Pending
    /\ store = {}
    /\ NoDashboard

\* add_row computes the colour of the row of the run
CallAddRow ==
    /\ ~ret.done
    /\ ret' = Returned(placement_color(arg))
    /\ UNCHANGED <<store, game_data_version, next_id, tasks, ui, arg, context>>

NextColour == CallAddRow

SpecColour == InitColour /\ [][NextColour]_vars

\* the tier a colour stands for: white Perfect, yellow gold, gray-400
\* silver, #cd7f32 bronze, gray-500 none
TierOfColour(colour) ==
    CASE colour = "text-white" -> "Perfect Game"
      [] colour = "text-yellow-400" -> "1st"
      [] colour = "text-gray-400" -> "2nd"
      [] colour = "text-[#cd7f32]" -> "3rd"
      [] colour = "text-gray-500" -> "No Placement"

\* C24: the tier of the colour add_row gives a run is the category
\* categorize_game gives it for every run with wins <= finished, and the two
\* differ exactly for the runs with wins = 10 and finished < 10.
C24_ColourIsCategory ==
    ret.done =>
        /\ arg.wins <= arg.finished
           => TierOfColour(ret.value) = categorize_game(arg)
        /\ TierOfColour(ret.value) # categorize_game(arg)
           <=> (arg.wins = 10 /\ arg.finished < 10)

\* a run with ten wins in more than ten days is coloured gold, and one with
\* ten wins in fewer days exists among the inputs
C24_Witness ==
    /\ ret.done
    /\ arg.wins = 10
    /\ arg.finished = 11
    /\ ret.value = "text-yellow-400"
    /\ TierOfColour(placement_color([wins |-> 10, finished |-> 9])) = "2nd"


-----------------------------------------------------------------------------
(* SpecForm: the sliders of the Add Run form.  The browser sends the value *)
(* of a slider (update:model-value, which sets slider.value) and its       *)
(* 'change' event in two messages, and the click on Add Run in a third;    *)
(* the handlers registered with on('change', ...) run for the change       *)
(* event only.  Assigning slider.value in a handler or in create sends no  *)
(* change event.                                                           *)

\* values the browser sends for the wins slider (min=0, max=10, line 808)
WinsValues == { 0, 5, 10 }

\* values the browser sends for the finished slider (min=0, max=20, line 812)
FinishedValues == { 0, 5, 10, 20 }

\* the two sliders of the page
Sliders(page) == [wins |-> page.wins, finished |-> page.finished]

\* sync_finished_with_wins, lines 826-828
sync_finished_with_wins(f) ==
    IF f.finished < f.wins THEN [f EXCEPT !.finished = f.wins] ELSE f

\* enforce_win_limit, lines 820-824
enforce_win_limit(f) ==
    LET g == IF f.wins > f.finished THEN [f EXCEPT !.wins = f.finished] ELSE f
    IN  IF g.finished < g.wins THEN [g EXCEPT !.finished = g.wins] ELSE g

\* the value of the wins slider arrives from the browser
WinsInput(s, v) ==
    /\ ui[s].loaded
    /\ ui[s].wins # v
    /\ ui' = [ui EXCEPT ![s].wins = v]
    /\ UNCHANGED <<store, game_data_version, next_id, tasks, arg, ret, context>>

\* the value of the finished slider arrives from the browser
FinishedInput(s, v) ==
    /\ ui[s].loaded
    /\ ui[s].finished # v
    /\ ui' = [ui EXCEPT ![s].finished = v]
    /\ UNCHANGED <<store, game_data_version, next_id, tasks, arg, ret, context>>

\* lines 830-831: the change event of the wins slider runs
\* sync_finished_with_wins, then enforce_win_limit
WinsChange(s) ==
    /\ ui[s].loaded
    /\ LET f == enforce_win_limit(sync_finished_with_wins(Sliders(ui[s])))
       IN  ui' = [ui EXCEPT ![s].wins = f.wins, ![s].finished = f.finished]
    /\ UNCHANGED <<store, game_data_version, next_id, tasks, arg, ret, context>>

\* line 832: the change event of the finished slider runs enforce_win_limit
FinishedChange(s) ==
    /\ ui[s].loaded
    /\ LET f == enforce_win_limit(Sliders(ui[s]))
       IN  ui' = [ui EXCEPT ![s].wins = f.wins, ![s].finished = f.finished]
    /\ UNCHANGED <<store, game_data_version, next_id, tasks, arg, ret, context>>

\* the Add Run button: create reads wins.value and finished.value
\* (lines 503-504)
AddRunClick(s, form) ==
    CreateClick(s, [form EXCEPT !.wins = ui[s].wins, !.finished = ui[s].finished])

InitForm ==
    /\ store = {}
    /\ next_id = 1
    /\ game_data_version = [u \in { TheUser.id, OtherUser.id } |-> 0]
    /\ ui = [s \in Sessions |-> LoadedPage(TheUser.id, TheSeason.value)]
    /\ tasks = EmptyBag
    /\ arg = << >>
    /\ ret = Pending
    /\ context = [session |-> RequestSession(TheUser.id), season |-> TheSeason.value]

\* the page whose form is used
FormSessions == { "s1" }

NextForm ==
    \/ \E s \in FormSessions, v \in WinsValues : WinsInput(s, v)
    \/ \E s \in FormSessions, v \in FinishedValues : FinishedInput(s, v)
    \/ \E s \in FormSessions : WinsChange(s)
    \/ \E s \in FormSessions : FinishedChange(s)
    \/ \E s \in FormSessions, form \in FormInputs : AddRunClick(s, form)
    \/ \E t \in Running : LoadPageUser(t)
    \/ \E t \in Running : LoadPageCount(t)
    \/ \E t \in Running : LoadPageGames(t, FALSE)

SpecForm == InitForm /\ [][NextForm]_vars

-----------------------------------------------------------------------------
(* The sliders *)

\* C23: after any sequence of slider changes and form resets, every run
\* created through the Add Run form has 0 <= wins <= finished <= 20 and
\* wins <= 10 (the change handlers of the sliders leave wins <= finished).
C23_FormRunsValid ==
    \A g \in store :
        /\ 0 <= g.wins /\ g.wins <= g.finished /\ g.finished <= 20
        /\ g.wins <= 10

-----------------------------------------------------------------------------
(* SpecNav: the Previous and Next buttons.  A button stays as load_page    *)
(* rendered it until the next load_page of the page has completed, and its *)
(* lambda reads current_page when it is clicked; at most MaxTasks          *)
(* coroutines wait at the same time, Previous is not clicked below page    *)
(* -MaxBelow and Next not above page MaxPageNumber.                        *)

\* how far below page 1 the model follows the Previous button
MaxBelow == 1

\* how far the model follows the Next button
MaxPageNumber == 3

\* the Previous button (line 472): list_of_games.refresh(page_number =
\* current_page - 1) starts load_page
PrevClick(s) ==
    /\ ui[s].loaded
    /\ ui[s].pagination.previous
    /\ ui[s].current_page - 1 >= 0 - MaxBelow
    /\ context' = ContextOf(s)
    /\ tasks' = tasks (+) SetToBag({
            EnterLoadPage(ListTask("load_page", s, "lp_user"), s,
                          ui[s].current_page - 1) })
    /\ UNCHANGED <<store, game_data_version, next_id, ui, arg, ret>>

\* load_page, lines 451-455, with a negative offset: the query raises
\* (the store does not take a negative OFFSET), load_page ends there and
\* the exception ends the handler that awaited it
LoadPageRaises(t) ==
    /\ t.pc = "lp_games"
    /\ t.offset < 0
    /\ tasks' = Without(tasks, t)
    /\ UNCHANGED <<store, game_data_version, next_id, ui, arg, ret, context>>

NextNav ==
    \/ \E s \in Sessions : Room /\ ui[s].current_page < MaxPageNumber /\ NextClick(s)
    \/ \E s \in Sessions : Room /\ PrevClick(s)
    \/ \E t \in Running : LoadPageUser(t)
    \/ \E t \in Running : LoadPageCount(t)
    \/ \E t \in Running : LoadPageGames(t, FALSE)
    \/ \E t \in Running : LoadPageRaises(t)

SpecNav == InitRefresh /\ [][NextNav]_vars

-----------------------------------------------------------------------------
(* The page number *)

\* the load_page calls that are waiting
LoadPageCalls == { t \in Running : t.pc \in { "lp_user", "lp_count", "lp_games" } }

\* C21: in every reachable state, also when Previous or Next is clicked
\* while an earlier load_page is waiting for its queries, load_page is
\* called with page_number >= 1 only, current_page is >= 1 and the offset
\* (current_page - 1) * page_size of the page query is not negative.
C21_PageNumberPositive ==
    /\ \A t \in LoadPageCalls : t.page_number >= 1
    /\ \A s \in Sessions : ui[s].current_page >= 1
    /\ \A t \in LoadPageCalls : t.pc = "lp_games" => t.offset >= 0


-----------------------------------------------------------------------------
(* SpecIso: the aggregates of one (owner, season) pair while another page  *)
(* creates and deletes runs.  Page s1 is the dashboard of the pair, page   *)
(* s2 the dashboard of another user or of another season of the same user. *)

\* what stats_tables computes for a pair: the percentages, the runs per
\* hero and the rows of both tables
Aggregates(user_id, season) ==
    LET heroes == get_heroes_sorted(HeroValues(user_id, season))
        rows(rank_value) ==
            BuildRows(heroes, StatsLoop(FilterRanked(user_id, season, rank_value),
                                        InitStats(heroes)))
    IN  [percentages |-> compute_placement_percentages(user_id, season),
         per_hero |-> compute_runs_per_hero(user_id, season),
         ranked_rows |-> rows(TRUE),
         unranked_rows |-> rows(FALSE)]

\* the (owner, season) pairs of the other page
OtherPairs ==
    { << OtherUser.id, TheSeason.value >>, << TheUser.id, OtherSeason.value >> }

\* the page that was opened last has set context (lines 253, 277)
InitIso ==
    /\ store = LegacyRows \cup ForeignRows
    /\ next_id = 4
    /\ game_data_version = [u \in { TheUser.id, OtherUser.id } |-> 0]
    /\ \E p \in OtherPairs :
          ui = [s \in Sessions |->
                   IF s = "s1" THEN LoadedPage(TheUser.id, TheSeason.value)
                   ELSE LoadedPage(p[1], p[2])]
    /\ tasks = EmptyBag
    /\ arg = [user_id |-> TheUser.id, season |-> TheSeason.value]
    /\ ret = Pending
    /\ \E s \in Sessions : context = ContextOf(s)

\* the aggregators are called for the pair; the store they are called on
\* is kept with what they return
CallAggregates ==
    /\ LET out == Returned([output |-> Aggregates(arg.user_id, arg.season),
                            store |-> store])
       IN  /\ ret # out
           /\ ret' = out
    /\ UNCHANGED <<store, game_data_version, next_id, tasks, ui, arg, context>>

NextIso ==
    \/ CallAggregates
    \/ \E s \in Sessions : \E g \in SeqToSet(ui[s].game_rows) :
          Idle(s) /\ DeleteClick(s, g)
    \/ \E t \in Running : DeleteUsersGet(t)
    \/ \E t \in Running : DeleteGameGet(t)
    \/ \E t \in Running : DeleteGameDelete(t)
    \/ \E s \in Sessions, form \in FormInputs : Idle(s) /\ CreateClick(s, form)
    \/ \E t \in Running : LoadPageUser(t)
    \/ \E t \in Running : LoadPageCount(t)
    \/ \E t \in Running : LoadPageGames(t, FALSE)

SpecIso == InitIso /\ [][NextIso]_vars

-----------------------------------------------------------------------------
(* Isolation of the aggregates *)

\* the runs of the pair of the call in a store
RunsOfPair(rows) ==
    { g \in rows : g.player_id = arg.user_id /\ g.season = arg.season }

\* the aggregators have returned
Aggregated == ret.done /\ "output" \in DOMAIN ret.value

\* C22: the aggregates of an (owner, season) pair depend on the runs of the
\* pair only: whatever runs of another user or of another season have been
\* created or deleted since the aggregators were called, the percentages,
\* the runs per hero and the rows of both tables they returned are those
\* they return now, as long as the runs of the pair are the same.
C22_Isolation ==
    (Aggregated /\ RunsOfPair(ret.value.store) = RunsOfPair(store))
        => ret.value.output = Aggregates(arg.user_id, arg.season)

\* the aggregators were called, and since then another user has created a
\* run in the season of the pair and the pair's runs are the same
C22_Witness ==
    /\ Aggregated
    /\ ret.value.output.per_hero.counts # << >>
    /\ RunsOfPair(ret.value.store) = RunsOfPair(store)
    /\ \E g \in store \ ret.value.store :
           g.player_id = OtherUser.id /\ g.season = arg.season
=============================================================================
